---------------------------- MODULE Spec2Model ----------------------------
(***************************************************************************)
(* The stdio-to-HTTP bridge of mcp-servers: the generic proxy              *)
(* (src/unnamed/part_004) and the GitHub proxy                             *)
(* (src/mcp-servers/github-mcp/proxy/main.go).                             *)
(*                                                                         *)
(* One module models both programs; the variable impl says which one runs. *)
(* The goroutines are: one Handle goroutine per HTTP request (Workers),    *)
(* the processRequests goroutine(s) started by NewMCPProxy (ProcIds), and  *)
(* the child process, which is the environment.                            *)
(*                                                                         *)
(* A text (a []byte in the code) is a sequence of chunks.  A chunk is a    *)
(* record [k, id, pay]: k = "nl" is the byte '\n', k = "obj" is one JSON   *)
(* object written on one line whose id member is the raw id `id`, k =      *)
(* "bad" is bytes that are not JSON; pay tells otherwise equal chunks      *)
(* apart.  The remaining kinds are the fixed texts the HTTP layer writes.  *)
(*                                                                         *)
(* The variable scenario names the family of inputs the environment (the   *)
(* HTTP clients and the child) draws from; each specification fixes one.   *)
(***************************************************************************)
EXTENDS Integers, Sequences, FiniteSets, TLC

(* ----------------------------- bounds ---------------------------------- *)

\* number of HTTP requests (one Handle goroutine each)
NumWorkers == 2

\* number of lines (or unterminated fragments) the child writes to stdout
MaxLines == 2

\* number of entries of a result's content array
MaxContent == 2

\* number of times the response middleware is applied in a row
MaxApplications == 2

\* number of lines the child writes to its stderr
MaxLog == 2

(* ------------------------ program constants ---------------------------- *)

\* mutation of QueueCap: room for one request more
QueueCapLarger == 100 + 1

\* make(chan *request, 100)
QueueCap == 100

\* mutation of RespChanCap: an unbuffered response channel
RespChanUnbuffered == 1 - 1

\* response: make(chan json.RawMessage, 1)
RespChanCap == 1

\* mutation of NumProcessors: a second processRequests goroutine on the same pipes
NumProcessorsTwo == 1 + 1

\* NewMCPProxy starts processRequests once: go proxy.processRequests()
NumProcessors == 1

Workers == 1 .. NumWorkers

ProcIds == 1 .. NumProcessors

\* enough HTTP requests to fill the queue behind one request in flight, and one more
FloodWorkers == 1 .. (QueueCap + 2)

(* ------------------------------ texts ---------------------------------- *)

\* raw id members as they are spelled in a JSON object
AbsentId == [t |-> "absent", v |-> 0]

NullId == [t |-> "null", v |-> 0]

NumId(n) == [t |-> "num", v |-> n]

StrId(n) == [t |-> "str", v |-> n]

\* the ids of the lines the child writes
LineIds == {AbsentId, NumId(1), NumId(2)}

\* the values an interface{} ID holds after json.Unmarshal
NilID == [t |-> "nil", v |-> 0]

NL == [k |-> "nl", id |-> AbsentId, pay |-> 0]

Obj(id, pay) == [k |-> "obj", id |-> id, pay |-> pay]

\* the object Obj(id, pay) written over two lines: the same members with a '\n'
\* between them, as a client that pretty-prints its JSON sends it
ObjLines(id, pay) == [k |-> "objml", id |-> id, pay |-> pay]

\* the token is one JSON object
IsObject(c) == c.k \in {"obj", "objml"}

Bad(pay) == [k |-> "bad", id |-> AbsentId, pay |-> pay]

Fixed(kind) == [k |-> kind, id |-> AbsentId, pay |-> 0]

NoInput == [method |-> "", path |-> "", body |-> <<>>]

NoRequest == [msg |-> <<>>, isRequest |-> FALSE]

NoResponse == [status |-> 0, ctype |-> "", body |-> <<>>, cors |-> FALSE]

NoCycle == [write |-> "none", lines |-> <<>>, readErr |-> FALSE, sent |-> <<>>, warned |-> FALSE]

(* ------------------------- pure functions ------------------------------ *)

\* a text without its JSON whitespace (here: its '\n' bytes)
NoSpace(text) == SelectSeq(text, LAMBDA c : c.k # "nl")

\* mutation of UnmarshalID: an id member that is null decodes to a value of its own
UnmarshalIDNullIsValue(text) ==
    IF Len(NoSpace(text)) = 1 /\ IsObject(NoSpace(text)[1])
    THEN CASE NoSpace(text)[1].id.t = "num" -> [t |-> "float64", v |-> NoSpace(text)[1].id.v]
           [] NoSpace(text)[1].id.t = "str" -> [t |-> "string", v |-> NoSpace(text)[1].id.v]
           [] NoSpace(text)[1].id.t = "null" -> [t |-> "null", v |-> 0]
           [] OTHER -> NilID
    ELSE NilID

\* json.Unmarshal(data, &MCPMessage{}) followed by .ID: the id of a text that is
\* exactly one JSON object (whitespace around it is allowed), as a Go value; nil
\* when the member is absent or null, and when the text is not one JSON object
\* (Unmarshal fails and leaves ID nil)
UnmarshalID(text) ==
    IF Len(NoSpace(text)) = 1 /\ IsObject(NoSpace(text)[1])
    THEN CASE NoSpace(text)[1].id.t = "num" -> [t |-> "float64", v |-> NoSpace(text)[1].id.v]
           [] NoSpace(text)[1].id.t = "str" -> [t |-> "string", v |-> NoSpace(text)[1].id.v]
           [] OTHER -> NilID
    ELSE NilID

\* mutation of formatID: the value printed without JSON quoting
formatIDUnquoted(id) ==
    CASE id.t = "float64" -> ToString(id.v)
      [] id.t = "string" -> id.v
      [] OTHER -> "null"

\* json.Marshal(id) as a string
formatID(id) ==
    CASE id.t = "float64" -> ToString(id.v)
      [] id.t = "string" -> "\"" \o id.v \o "\""
      [] OTHER -> "null"

\* respMsg.ID == requestID || (both non-nil && formatID(respMsg.ID) == formatID(requestID))
IDMatches(respID, requestID) ==
    \/ respID = requestID
    \/ respID # NilID /\ requestID # NilID /\ formatID(respID) = formatID(requestID)

\* mutation of DecodeBody: any body is accepted as it is
DecodeBodyLenient(body) == [ok |-> TRUE, msg |-> body]

\* json.NewDecoder(r.Body).Decode(&msg) with msg a json.RawMessage: the first JSON
\* value of the body, leading whitespace skipped; what follows it is not read.
\* msg holds the bytes of the value as they were sent, the whitespace inside it
\* included
DecodeBody(body) ==
    IF NoSpace(body) # <<>> /\ IsObject(NoSpace(body)[1])
    THEN [ok |-> TRUE, msg |-> <<NoSpace(body)[1]>>]
    ELSE [ok |-> FALSE, msg |-> <<>>]

\* index of the first '\n' of a text, 0 when there is none
FirstNL(text) ==
    IF \E i \in 1 .. Len(text) : text[i].k = "nl"
    THEN CHOOSE i \in 1 .. Len(text) :
             text[i].k = "nl" /\ \A j \in 1 .. (i - 1) : text[j].k # "nl"
    ELSE 0

\* bufio.Reader.ReadBytes('\n') on the unread stream: the bytes up to and including
\* the first delimiter, or everything left and an error at end of stream
ReadBytes(stream) ==
    IF FirstNL(stream) > 0
    THEN [err |-> FALSE,
          line |-> SubSeq(stream, 1, FirstNL(stream)),
          rest |-> SubSeq(stream, FirstNL(stream) + 1, Len(stream))]
    ELSE [err |-> TRUE, line |-> stream, rest |-> <<>>]

\* mutation of ResponseData: the delimiter is not cut off
ResponseDataKeepDelimiter(line) == line

\* responseData := line[:len(line)-1]
ResponseData(line) == SubSeq(line, 1, Len(line) - 1)

(* ------------------------ response middleware -------------------------- *)

\* A reply (the []byte handed to the middleware) is a record: json says whether
\* the bytes unmarshal into an MCPResponse; id, result and error are its members;
\* extra says whether it has members MCPResponse does not name; form is "wire"
\* for bytes as the child wrote them and "marshal" for bytes as json.Marshal
\* writes them.  A result is a record: kind is "absent" (no member), "null",
\* "object" or "other" (a JSON value that does not unmarshal into an MCPResult);
\* isError is "absent", "false", "true" or "bad" (not a boolean); content is the
\* array of its content entries; extra says whether it has other members.  A
\* content entry is a record: type and text are its members of these names;
\* extra says whether it has members MCPContent does not name, as an image
\* entry has (data, mimeType).

\* the texts of content entries
Texts == {"rows", "ORA-00942", "sp2-0640", "Error: x"}

\* mutation of PatternMatches: the pattern without its (?i) flag
PatternMatchesCaseSensitive(text) == text \in {"ORA-00942"}

\* errorPattern.MatchString(text): (?i)(ORA-\d+|SP2-\d+|Error:.*(ORA-\d+|SP2-\d+))
PatternMatches(text) == text \in {"ORA-00942", "sp2-0640"}

\* strings.Contains(text, "Error:")
ContainsErrorColon(text) == text \in {"Error: x"}

ContentItems ==
    {[type |-> t, text |-> x, extra |-> (t = "image")] : t \in {"text", "image"}, x \in Texts}

Contents == UNION {[1 .. n -> ContentItems] : n \in 0 .. MaxContent}

NoResult == [kind |-> "absent", isError |-> "absent", content |-> <<>>, extra |-> FALSE]

Results ==
    [kind : {"object"}, isError : {"absent", "false", "true", "bad"},
     content : Contents, extra : BOOLEAN]
        \cup {NoResult,
              [kind |-> "null", isError |-> "absent", content |-> <<>>, extra |-> FALSE],
              [kind |-> "other", isError |-> "absent", content |-> <<>>, extra |-> FALSE]}

\* bytes that do not unmarshal into an MCPResponse
BadReply ==
    [json |-> FALSE, id |-> AbsentId, result |-> NoResult, error |-> FALSE,
     extra |-> FALSE, form |-> "wire"]

NoReply == BadReply

\* the replies the middleware is given
Replies ==
    [json : {TRUE}, id : {NullId, NumId(1)}, result : Results, error : BOOLEAN,
     extra : BOOLEAN, form : {"wire"}]
        \cup {BadReply}

\* the values of MARK_SQL_ERRORS_AS_ERROR
EnvValues == {"", "true", "1", "TRUE"}

\* mutation of MarkingEnabled: any non-empty value enables the marking
MarkingEnabledUnlessEmpty(markErrors) == markErrors # ""

\* markErrors != "true" && markErrors != "1" is false
MarkingEnabled(markErrors) == markErrors = "true" \/ markErrors = "1"

\* mutation of ResultDecodes: the error of the second Unmarshal is dropped
ResultDecodesAlways(result) == TRUE

\* json.Unmarshal(mcpResp.Result, &result) returns no error
ResultDecodes(result) == result.kind \in {"object", "null"} /\ result.isError # "bad"

\* mutation of AlreadyMarked: the isError check is left out
AlreadyMarkedNever(result) == FALSE

\* if result.IsError
AlreadyMarked(result) == result.isError = "true"

\* the loop over result.Content: a text entry that matches errorPattern or
\* contains "Error:"
HasOracleError(content) ==
    \E i \in 1 .. Len(content) :
        /\ content[i].type = "text"
        /\ PatternMatches(content[i].text) \/ ContainsErrorColon(content[i].text)

\* json.Marshal of an MCPContent: type and text, no other member
MarshalContent(item) == [type |-> item.type, text |-> item.text, extra |-> FALSE]

\* result.IsError = true; json.Marshal(result): content and isError, no other member
MarshalResult(result) ==
    [kind |-> "object", isError |-> "true",
     content |-> [i \in 1 .. Len(result.content) |-> MarshalContent(result.content[i])],
     extra |-> FALSE]

\* mcpResp.Result = newResult; json.Marshal(mcpResp): jsonrpc, id unless nil,
\* result, error unless empty, and no other member
MarshalResponse(response, newResult) ==
    [json |-> TRUE,
     id |-> IF response.id = NullId THEN AbsentId ELSE response.id,
     result |-> newResult, error |-> response.error, extra |-> FALSE,
     form |-> "marshal"]

\* markOracleErrors(response), with markErrors the value of the environment variable
markOracleErrors(markErrors, response) ==
    IF ~MarkingEnabled(markErrors) THEN response
    ELSE IF ~response.json THEN response
    ELSE IF response.result.kind = "absent" THEN response
    ELSE IF ~ResultDecodes(response.result) THEN response
    ELSE IF AlreadyMarked(response.result) THEN response
    ELSE IF HasOracleError(response.result.content)
         THEN MarshalResponse(response, MarshalResult(response.result))
         ELSE response

(* ------------------------------ state ---------------------------------- *)

VARIABLES
    impl,          \* "generic" or "github": which main package runs
    enableCORS,    \* MCPProxy.enableCORS (generic proxy)
    scenario,      \* the family of inputs the clients and the child draw from
    gone,          \* per request: its HTTP client has closed the connection
    markEnv,       \* the value of MARK_SQL_ERRORS_AS_ERROR
    mwIn,          \* the reply handed to the response middleware
    mwOut,         \* what the middleware returned, applied to its own output in turn
    boot,          \* "starting": before cmd.Start(); "running": NewMCPProxy returned
                   \* a proxy; "failed": it returned an error and main exited
    stderr,        \* the lines of the child's stderr not yet read
    logged,        \* the stderr lines the drain goroutine has logged
    drain,         \* the drain goroutine: "scanning", or "stopped" after Scan returned false
    crashed,       \* the process died of a panic in a goroutine
    hpc,           \* Handle goroutine of request w: where it is
    inp,           \* the HTTP request w
    req,           \* the *request Handle built for w
    chan,          \* req.response of w: [buf, closed]
    resp,          \* what the ResponseWriter of w has sent
    requests,      \* p.requests: the queued *request, by request number
    ppc,           \* processRequests goroutine p: where it is
    cur,           \* its loop variable req (0: none)
    requestID,     \* its local requestID (GitHub proxy), nil outside the read loop
    stdin,         \* every byte written to the child's stdin
    stdinOpen,     \* FALSE once writes to the child's stdin fail
    stdout,        \* the bytes of the child's stdout not yet read
    stdoutClosed,  \* the child closed its stdout
    emitted,       \* the texts the child wrote to stdout, in order
    cycle          \* per request, what processRequests did for it: the result of
                   \* the write, the lines read, the read error, the value sent

vars == <<impl, enableCORS, scenario, gone, markEnv, mwIn, mwOut, boot, stderr, logged, drain, crashed, hpc, inp, req, chan, resp, requests, ppc, cur,
          requestID, stdin, stdinOpen, stdout, stdoutClosed, emitted, cycle>>

httpVars == <<hpc, inp, req, resp>>

procVars == <<ppc, cur, requestID>>

childVars == <<stdinOpen, stdout, stdoutClosed, emitted>>

configVars == <<impl, enableCORS, scenario>>

mwVars == <<markEnv, mwIn, mwOut>>

drainVars == <<stderr, logged, drain>>

(* ------------------------------ inputs --------------------------------- *)

\* the ids of the bodies the HTTP clients send
BodyIds ==
    CASE scenario = "ids" -> {AbsentId, NumId(1), NumId(2)}
      [] scenario = "classify" -> {AbsentId, NullId, NumId(0), StrId("")}
      [] scenario = "malformed" -> {AbsentId, NumId(1)}
      [] scenario = "cancel" -> {NumId(1), NumId(2)}
      [] scenario = "match" -> {NumId(1), StrId("1")}
      [] OTHER -> {NumId(1)}

\* the texts an HTTP client sends as a body, tagged with the request's number;
\* <<>> is the empty body
Bodies(w) ==
    {<<Bad(w)>>} \cup {<<Obj(id, w)>> : id \in BodyIds}
        \cup (IF scenario = "routes" THEN {<<>>} ELSE {})
        \cup (IF scenario = "multiline"
              THEN {<<ObjLines(NumId(1), w)>>, <<NL, Obj(NumId(1), w)>>,
                    <<Obj(NumId(1), w), NL>>, <<ObjLines(AbsentId, w)>>}
              ELSE {})

\* the texts the child writes before a line delimiter, tagged with the line's
\* number; <<>> is the empty line
LineTexts(n) ==
    CASE scenario = "ids" -> {<<Obj(id, n)>> : id \in LineIds}
      [] scenario = "classify" -> {<<Obj(id, n)>> : id \in {NumId(0), StrId("")}}
      [] scenario = "malformed" -> {<<Bad(n)>>, <<>>, <<Obj(NumId(1), n)>>}
      [] scenario = "cancel" -> {<<Obj(id, n)>> : id \in {NumId(1), NumId(2)}}
      [] scenario = "match" -> {<<Obj(id, n)>> : id \in {NumId(1), StrId("1")}}
      [] scenario = "nullid" -> {<<Obj(id, n)>> : id \in {NullId, AbsentId, NumId(1)}}
      [] OTHER -> {<<Obj(NumId(1), n)>>}

\* the HTTP requests a client sends
HTTPInputs(w) ==
    IF scenario = "flood"
    THEN {[method |-> "POST", path |-> "/", body |-> <<Obj(NumId(1), w)>>]}
    ELSE
    {[method |-> "POST", path |-> "/", body |-> b] : b \in Bodies(w)}
        \cup {[method |-> "OPTIONS", path |-> "/", body |-> <<Obj(NumId(1), w)>>]}
        \cup {[method |-> "GET", path |-> "/sse", body |-> <<>>]}
        \cup (IF scenario = "routes"
              THEN {[method |-> "OPTIONS", path |-> "/", body |-> <<Bad(w)>>],
                    [method |-> "POST", path |-> "/sse", body |-> <<Obj(NumId(1), w)>>]}
              ELSE {})

\* NewMCPProxy has returned: the child runs, processRequests waits on the queue;
\* the environment draws its inputs from scenario s
\* with the HTTP requests ws, in the phase b of the start-up
BridgeVarsInitOn(s, ws, b) ==
    /\ impl \in {"generic", "github"}
    /\ enableCORS \in (IF impl = "generic" THEN BOOLEAN ELSE {FALSE})
    /\ scenario = s
    /\ gone = [w \in ws |-> FALSE]
    /\ crashed = FALSE
    /\ hpc = [w \in ws |-> "idle"]
    /\ inp = [w \in ws |-> NoInput]
    /\ req = [w \in ws |-> NoRequest]
    /\ chan = [w \in ws |-> [buf |-> <<>>, closed |-> FALSE]]
    /\ resp = [w \in ws |-> NoResponse]
    /\ requests = <<>>
    /\ boot = b
    /\ ppc = [p \in ProcIds |-> IF b = "running" THEN "recv" ELSE "none"]
    /\ stderr = <<>>
    /\ logged = <<>>
    /\ drain = "scanning"
    /\ cur = [p \in ProcIds |-> 0]
    /\ requestID = [p \in ProcIds |-> NilID]
    /\ stdin = <<>>
    /\ stdinOpen = TRUE
    /\ stdout = <<>>
    /\ stdoutClosed = FALSE
    /\ emitted = <<>>
    /\ cycle = [w \in ws |-> NoCycle]

BridgeVarsInit(s) == BridgeVarsInitOn(s, Workers, "running")

\* the bridge without a response middleware at work
BridgeInit(s) ==
    /\ BridgeVarsInit(s)
    /\ markEnv = ""
    /\ mwIn = NoReply
    /\ mwOut = <<>>

Init == BridgeInit("ids")

(* --------------------------- HTTP responses ---------------------------- *)

\* the Access-Control-Allow-* headers are set: always in the GitHub proxy,
\* under p.enableCORS in the generic proxy
CORSOn == impl = "github" \/ enableCORS

\* w.WriteHeader(http.StatusOK); return
OptionsResponse == [status |-> 200, ctype |-> "", body |-> <<>>, cors |-> TRUE]

\* mutation of ErrorResponse: http.Error on a writer without the CORS headers
ErrorResponseNoCORS(code, kind) ==
    [status |-> code, ctype |-> "text/plain; charset=utf-8",
     body |-> <<Fixed(kind), NL>>, cors |-> FALSE]

\* http.Error(w, text, code): text/plain, the text and a newline
ErrorResponse(code, kind) ==
    [status |-> code, ctype |-> "text/plain; charset=utf-8",
     body |-> <<Fixed(kind), NL>>, cors |-> CORSOn]

\* w.Header().Set("Content-Type", "application/json"); w.Write(response)
ReplyResponse(response) ==
    [status |-> 200, ctype |-> "application/json", body |-> response, cors |-> CORSOn]

\* mutation of NotificationResponse: the receive's result decides the status
NotificationResponseChecked(ok) ==
    IF ok
    THEN [status |-> 202, ctype |-> "", body |-> <<>>, cors |-> CORSOn]
    ELSE ErrorResponse(500, "failed_to_get_response")

\* <-req.response; w.WriteHeader(http.StatusAccepted): the receive's result is dropped
NotificationResponse(ok) ==
    [status |-> 202, ctype |-> "", body |-> <<>>, cors |-> CORSOn]

\* HandleSSEDeprecated: 410 and the fixed JSON-RPC error
SSEResponse ==
    [status |-> 410, ctype |-> "application/json",
     body |-> <<Fixed("sse_deprecated")>>, cors |-> FALSE]

\* mutation of RoutedToSSE: no handler is registered for /sse
RoutedToSSENever(in) == FALSE

\* http.HandleFunc("/sse", HandleSSEDeprecated) exists in the GitHub proxy only
RoutedToSSE(in) == impl = "github" /\ in.path = "/sse"

\* mutation of IsPreflight: OPTIONS is handled like any other method
IsPreflightNever(in) == FALSE

\* if r.Method == "OPTIONS", reached when the CORS headers are set
IsPreflight(in) == CORSOn /\ in.method = "OPTIONS"

\* mutation of IsRequest: an id of 0 or "" counts as no id
IsRequestTruthy(msg) ==
    UnmarshalID(msg) \notin {NilID, [t |-> "float64", v |-> 0], [t |-> "string", v |-> ""]}

\* json.Unmarshal(msg, &mcpMsg); isRequest := mcpMsg.ID != nil
IsRequest(msg) == UnmarshalID(msg) # NilID

(* --------------------------- Handle goroutines ------------------------- *)

\* the process runs: NewMCPProxy returned a proxy, http.ListenAndServe serves, and
\* no goroutine has panicked
Alive == ~crashed /\ boot = "running"

\* the HTTP requests are numbered in the order in which their handlers start
Arrived(w) == IF w = 1 THEN TRUE ELSE hpc[w - 1] # "idle"

\* GET|POST /sse in the GitHub proxy
HandleSSEDeprecated(w, in) ==
    /\ Alive
    /\ hpc[w] = "idle" /\ Arrived(w)
    /\ RoutedToSSE(in)
    /\ inp' = [inp EXCEPT ![w] = in]
    /\ resp' = [resp EXCEPT ![w] = SSEResponse]
    /\ hpc' = [hpc EXCEPT ![w] = "done"]
    /\ UNCHANGED <<configVars, mwVars, drainVars, boot, gone, crashed, req, chan, requests, procVars, stdin, childVars, cycle>>

\* Handle, the CORS pre-flight: if r.Method == "OPTIONS" { w.WriteHeader(200); return }
HandleOptions(w, in) ==
    /\ Alive
    /\ hpc[w] = "idle" /\ Arrived(w)
    /\ ~RoutedToSSE(in)
    /\ IsPreflight(in)
    /\ inp' = [inp EXCEPT ![w] = in]
    /\ resp' = [resp EXCEPT ![w] = OptionsResponse]
    /\ hpc' = [hpc EXCEPT ![w] = "done"]
    /\ UNCHANGED <<configVars, mwVars, drainVars, boot, gone, crashed, req, chan, requests, procVars, stdin, childVars, cycle>>

\* Handle, the body does not decode: 400 with the decode error
HandleDecodeError(w, in) ==
    /\ Alive
    /\ hpc[w] = "idle" /\ Arrived(w)
    /\ ~RoutedToSSE(in)
    /\ ~IsPreflight(in)
    /\ ~DecodeBody(in.body).ok
    /\ inp' = [inp EXCEPT ![w] = in]
    /\ resp' = [resp EXCEPT ![w] = ErrorResponse(400, "decode_error")]
    /\ hpc' = [hpc EXCEPT ![w] = "done"]
    /\ UNCHANGED <<configVars, mwVars, drainVars, boot, gone, crashed, req, chan, requests, procVars, stdin, childVars, cycle>>

\* Handle, the body decodes: classify it, build the *request with its channel and
\* send it on p.requests (the send blocks while the queue is full)
HandleSubmit(w, in) ==
    /\ Alive
    /\ hpc[w] = "idle" /\ Arrived(w)
    /\ ~RoutedToSSE(in)
    /\ ~IsPreflight(in)
    /\ DecodeBody(in.body).ok
    /\ Len(requests) < QueueCap
    /\ inp' = [inp EXCEPT ![w] = in]
    /\ req' = [req EXCEPT ![w] = [msg |-> DecodeBody(in.body).msg,
                                  isRequest |-> IsRequest(DecodeBody(in.body).msg)]]
    /\ requests' = Append(requests, w)
    /\ hpc' = [hpc EXCEPT ![w] = "wait"]
    /\ UNCHANGED <<configVars, mwVars, drainVars, boot, gone, crashed, chan, resp, procVars, stdin, childVars, cycle>>

\* <-req.response and the response written from it
HandleReceive(w) ==
    /\ Alive
    /\ hpc[w] = "wait"
    /\ chan[w].buf # <<>> \/ chan[w].closed
    /\ LET ok == chan[w].buf # <<>>
       IN /\ chan' = [chan EXCEPT ![w].buf = IF ok THEN Tail(@) ELSE @]
          /\ resp' = [resp EXCEPT ![w] =
                 IF req[w].isRequest
                 THEN IF ok
                      THEN ReplyResponse(Head(chan[w].buf))
                      ELSE ErrorResponse(500, "failed_to_get_response")
                 ELSE NotificationResponse(ok)]
    /\ hpc' = [hpc EXCEPT ![w] = "done"]
    /\ UNCHANGED <<configVars, mwVars, drainVars, boot, gone, crashed, inp, req, requests, procVars, stdin, childVars, cycle>>

\* the HTTP client of a waiting request closes its connection.  Handle does not
\* watch r.Context(): its goroutine stays in <-req.response and later writes its
\* response to the dead connection; nothing else learns of the disconnect.
ClientDisconnect(w) ==
    /\ Alive
    /\ hpc[w] = "wait"
    /\ ~gone[w]
    /\ gone' = [gone EXCEPT ![w] = TRUE]
    /\ UNCHANGED <<configVars, mwVars, drainVars, boot, crashed, httpVars, chan, requests, procVars,
                   stdin, childVars, cycle>>

(* ----------------------- processRequests goroutine --------------------- *)

\* mutation of GithubLineStep: a line with another id is dropped and the loop reads on
GithubLineStepDropMismatch(respID, reqID) ==
    IF respID = NilID \/ ~IDMatches(respID, reqID) THEN "continue" ELSE "send"

\* GitHub proxy, what the read loop does with a line whose parsed id is respID:
\* no id: continue; matching id: send and break; other id: warn, send and break
GithubLineStep(respID, reqID) ==
    IF respID = NilID
    THEN "continue"
    ELSE IF IDMatches(respID, reqID) THEN "send" ELSE "warn_send"

\* generic proxy, readResponse: no id: continue; otherwise return the line
GenericLineStep(respID) == IF respID = NilID THEN "continue" ELSE "send"

\* mutation of LineStep: the first line read is the reply, with or without an id
LineStepNoSkip(respID, reqID) == "send"

\* the read loop's decision in the proxy that runs
LineStep(respID, reqID) ==
    IF impl = "github" THEN GithubLineStep(respID, reqID) ELSE GenericLineStep(respID)

\* the generic proxy checks the error of p.stdin.Write, the GitHub proxy drops it
ChecksWriteError == impl = "generic"

\* mutation of NextRequest: the newest queued request is served first
NextRequestNewest(queue) == queue[Len(queue)]

\* for req := range p.requests: the receive takes the oldest queued request
NextRequest(queue) == Head(queue)

\* mutation of ReadsReply: a reply is read for every message written
ReadsReplyAlways(isRequest) == TRUE

\* if req.isRequest { ... read the reply ... }
ReadsReply(isRequest) == isRequest

\* one turn of `for req := range p.requests` up to its first blocking read:
\* the write of the message and a delimiter, then, for a notification or a
\* failed write that is checked, close(req.response).  The write fails when the
\* child has closed its stdin, which it may do at any time; from then on every
\* write fails.
ProcessNext(p, failed) ==
    /\ Alive
    /\ ppc[p] = "recv"
    /\ requests # <<>>
    /\ ~stdinOpen => failed
    /\ stdinOpen' = ~failed
    /\ requests' = Tail(requests)
    /\ LET w == NextRequest(requests)
       IN /\ stdin' = IF failed THEN stdin ELSE stdin \o req[w].msg \o <<NL>>
          /\ cycle' = [cycle EXCEPT ![w].write = IF failed THEN "err" ELSE "ok"]
          /\ IF (failed /\ ChecksWriteError) \/ ~ReadsReply(req[w].isRequest)
             THEN /\ chan' = [chan EXCEPT ![w].closed = TRUE]
                  /\ UNCHANGED procVars
             ELSE /\ ppc' = [ppc EXCEPT ![p] = "read"]
                  /\ cur' = [cur EXCEPT ![p] = w]
                  /\ requestID' = [requestID EXCEPT ![p] =
                         IF impl = "github" THEN UnmarshalID(req[w].msg) ELSE @]
                  /\ UNCHANGED chan
    /\ UNCHANGED <<configVars, mwVars, drainVars, boot, gone, crashed, httpVars, stdout, stdoutClosed, emitted>>

\* p.stdout.ReadBytes('\n') returns an error: no delimiter is left to read and the
\* child's stdout is closed, or closes now.  close(req.response), then `continue`
\* in the generic proxy, `break` in the GitHub proxy (its line 120 runs next)
ReadError(p) ==
    /\ Alive
    /\ ppc[p] = "read"
    /\ ReadBytes(stdout).err
    /\ stdoutClosed' = TRUE
    /\ LET w == cur[p]
       IN /\ stdout' = ReadBytes(stdout).rest
          /\ cycle' = [cycle EXCEPT ![w].readErr = TRUE]
          /\ chan' = [chan EXCEPT ![w].closed = TRUE]
          /\ IF impl = "github"
             THEN /\ ppc' = [ppc EXCEPT ![p] = "close"]
                  /\ UNCHANGED cur
             ELSE /\ ppc' = [ppc EXCEPT ![p] = "recv"]
                  /\ cur' = [cur EXCEPT ![p] = 0]
    /\ UNCHANGED <<configVars, mwVars, drainVars, boot, gone, crashed, httpVars, requests, requestID, stdin, stdinOpen,
                   emitted>>

\* p.stdout.ReadBytes('\n') returns a line: skip it and read on, or send it on
\* req.response and close(req.response)
ReadLine(p) ==
    /\ Alive
    /\ ppc[p] = "read"
    /\ ~ReadBytes(stdout).err
    /\ LET w == cur[p]
           responseData == ResponseData(ReadBytes(stdout).line)
           step == LineStep(UnmarshalID(responseData), requestID[p])
       IN /\ stdout' = ReadBytes(stdout).rest
          /\ Len(chan[w].buf) < RespChanCap
          /\ cycle' = [cycle EXCEPT ![w].lines = Append(@, ReadBytes(stdout).line),
                                    ![w].sent = IF step = "continue" THEN @ ELSE Append(@, responseData),
                                    ![w].warned = (step = "warn_send")]
          /\ IF step = "continue"
             THEN UNCHANGED <<chan, ppc, cur, requestID>>
             ELSE /\ chan' = [chan EXCEPT ![w] = [buf |-> Append(@.buf, responseData),
                                                  closed |-> TRUE]]
                  /\ ppc' = [ppc EXCEPT ![p] = "recv"]
                  /\ cur' = [cur EXCEPT ![p] = 0]
                  /\ requestID' = [requestID EXCEPT ![p] = NilID]
    /\ UNCHANGED <<configVars, mwVars, drainVars, boot, gone, crashed, httpVars, requests, stdin, stdinOpen,
                   stdoutClosed, emitted>>

\* close(req.response) reached after the read loop closed the channel itself:
\* closing a closed channel panics, and a panic in a goroutine ends the process
CloseResponse(p) ==
    /\ Alive
    /\ ppc[p] = "close"
    /\ LET w == cur[p]
       IN IF chan[w].closed
          THEN /\ crashed' = TRUE
               /\ UNCHANGED <<chan, ppc, cur>>
          ELSE /\ chan' = [chan EXCEPT ![w].closed = TRUE]
               /\ ppc' = [ppc EXCEPT ![p] = "recv"]
               /\ cur' = [cur EXCEPT ![p] = 0]
               /\ UNCHANGED crashed
    /\ UNCHANGED <<configVars, mwVars, drainVars, boot, gone, httpVars, requests, requestID, stdin, childVars, cycle>>

(* ------------------------------ the child ------------------------------ *)

\* the child writes one line to its stdout
ChildEmitLine(text) ==
    /\ Alive
    /\ ~stdoutClosed
    /\ Len(emitted) < MaxLines
    /\ stdout' = stdout \o text \o <<NL>>
    /\ emitted' = Append(emitted, text \o <<NL>>)
    /\ UNCHANGED <<configVars, mwVars, drainVars, boot, gone, crashed, httpVars, chan, requests, procVars, stdin, stdinOpen,
                   stdoutClosed, cycle>>

\* the child writes bytes without a delimiter and exits: its stdout ends mid-line
ChildEmitPartial(text) ==
    /\ Alive
    /\ ~stdoutClosed
    /\ Len(emitted) < MaxLines
    /\ stdout' = stdout \o text
    /\ emitted' = Append(emitted, text)
    /\ stdoutClosed' = TRUE
    /\ UNCHANGED <<configVars, mwVars, drainVars, boot, gone, crashed, httpVars, chan, requests, procVars, stdin, stdinOpen,
                   cycle>>

(* --------------------------- specification ----------------------------- *)

Next ==
    \/ \E w \in Workers : \E in \in HTTPInputs(w) : HandleSSEDeprecated(w, in)
    \/ \E w \in Workers : \E in \in HTTPInputs(w) : HandleOptions(w, in)
    \/ \E w \in Workers : \E in \in HTTPInputs(w) : HandleDecodeError(w, in)
    \/ \E w \in Workers : \E in \in HTTPInputs(w) : HandleSubmit(w, in)
    \/ \E w \in Workers : HandleReceive(w)
    \/ \E p \in ProcIds : \E failed \in BOOLEAN : ProcessNext(p, failed)
    \/ \E p \in ProcIds : ReadError(p)
    \/ \E p \in ProcIds : ReadLine(p)
    \/ \E p \in ProcIds : CloseResponse(p)
    \/ \E text \in LineTexts(Len(emitted) + 1) : ChildEmitLine(text)
    \/ \E text \in {<<Obj(NumId(1), Len(emitted) + 1)>>} : ChildEmitPartial(text)

Spec == Init /\ [][Next]_vars

\* the clients and the child use the number 1 and the string "1" as ids
InitMatch == BridgeInit("match")

SpecMatch == InitMatch /\ [][Next]_vars

\* more clients than the queue has room for send calls; the child keeps its
\* pipes open and writes at most MaxLines reply lines
InitQueue ==
    /\ BridgeVarsInitOn("flood", FloodWorkers, "running")
    /\ markEnv = ""
    /\ mwIn = NoReply
    /\ mwOut = <<>>

NextQueue ==
    \/ \E w \in FloodWorkers : \E in \in HTTPInputs(w) : HandleSubmit(w, in)
    \/ \E w \in FloodWorkers : HandleReceive(w)
    \/ \E p \in ProcIds : ProcessNext(p, FALSE)
    \/ \E p \in ProcIds : ReadLine(p)
    \/ \E text \in LineTexts(Len(emitted) + 1) : ChildEmitLine(text)

SpecQueue == InitQueue /\ [][NextQueue]_vars

\* the clients may also close their connection while their request waits
InitCancel == BridgeInit("cancel")

NextCancel ==
    \/ Next
    \/ \E w \in Workers : ClientDisconnect(w)

SpecCancel == InitCancel /\ [][NextCancel]_vars

\* the response middleware on its own: a reply is handed to markOracleErrors, and
\* what it returns is handed to it again
InitOracle ==
    /\ BridgeVarsInit("ids")
    /\ impl = "generic" /\ enableCORS = FALSE
    /\ markEnv \in EnvValues
    /\ mwIn \in Replies
    /\ mwOut = <<>>

ApplyMiddleware ==
    /\ Len(mwOut) < MaxApplications
    /\ mwOut' = Append(mwOut, markOracleErrors(markEnv,
                                  IF mwOut = <<>> THEN mwIn ELSE mwOut[Len(mwOut)]))
    /\ UNCHANGED <<configVars, drainVars, boot, gone, markEnv, mwIn, crashed, httpVars, chan, requests,
                   procVars, stdin, childVars, cycle>>

NextOracle == ApplyMiddleware

SpecOracle == InitOracle /\ [][NextOracle]_vars

\* fair scheduling of the goroutines: a Handle goroutine whose receive can return
\* returns, and processRequests takes its next step when it can.  Fairness of
\* ReadError is the child's part: when no whole line is left to read, the child
\* eventually closes its stdout and the pending ReadBytes returns its error.
Fairness ==
    /\ \A w \in Workers : WF_vars(HandleReceive(w))
    /\ \A p \in ProcIds :
           /\ WF_vars(\E failed \in BOOLEAN : ProcessNext(p, failed))
           /\ WF_vars(ReadLine(p))
           /\ WF_vars(ReadError(p))
           /\ WF_vars(CloseResponse(p))

FairSpec == Spec /\ Fairness

\* the child also writes lines that are not JSON, and empty lines
InitMalformed == BridgeInit("malformed")

SpecMalformed == InitMalformed /\ [][Next]_vars

\* the clients send the ids 0, "" and null
InitClassify == BridgeInit("classify")

SpecClassify == InitClassify /\ [][Next]_vars

\* the clients use every method and path, with and without a body that decodes
InitRoutes == BridgeInit("routes")

SpecRoutes == InitRoutes /\ [][Next]_vars

(* ------------------------------ launch --------------------------------- *)

\* mutation of StartsWorker: the worker goroutine is started whatever cmd.Start returned
StartsWorkerAlways(ok) == TRUE

\* `if err := cmd.Start(); err != nil { return nil, err }` stands before
\* `go proxy.processRequests()`
StartsWorker(ok) == ok

\* NewMCPProxy from cmd.Start() on, and main around it: on an error main calls
\* log.Fatalf, which ends the process before a handler is registered and before
\* ListenAndServe; otherwise the worker starts and the listener opens
StartChild(ok) ==
    /\ ~crashed
    /\ boot = "starting"
    /\ boot' = IF ok THEN "running" ELSE "failed"
    /\ ppc' = [p \in ProcIds |-> IF StartsWorker(ok) THEN "recv" ELSE "none"]
    /\ UNCHANGED <<configVars, mwVars, drainVars, gone, crashed, httpVars, chan, requests, cur,
                   requestID, stdin, childVars, cycle>>

\* the process from the call of NewMCPProxy on: the child is not yet started
InitLaunch ==
    /\ BridgeVarsInitOn("launch", Workers, "starting")
    /\ markEnv = ""
    /\ mwIn = NoReply
    /\ mwOut = <<>>

NextLaunch ==
    \/ \E ok \in BOOLEAN : StartChild(ok)
    \/ Next

SpecLaunch == InitLaunch /\ [][NextLaunch]_vars

(* --------------------------- stderr drain ------------------------------- *)

\* what the child writes to its stderr: a line a bufio.Scanner with its default
\* buffer returns as a token, or a line longer than bufio.MaxScanTokenSize (64 KiB)
LogKinds == {"line", "toolong"}

\* the child writes one line to its stderr pipe
ChildLog(kind) ==
    /\ Alive
    /\ Len(stderr) + Len(logged) < MaxLog
    /\ stderr' = Append(stderr, kind)
    /\ UNCHANGED <<configVars, mwVars, boot, gone, logged, drain, crashed, httpVars, chan,
                   requests, procVars, stdin, childVars, cycle>>

\* one turn of `for scanner.Scan() { log.Printf(...) }`: a line is taken from the
\* pipe and logged; on a line that does not fit the buffer Scan returns false
\* (bufio.ErrTooLong), the loop ends and the goroutine with it, the rest of the
\* pipe unread
DrainScan ==
    /\ Alive
    /\ drain = "scanning"
    /\ stderr # <<>>
    /\ IF Head(stderr) = "toolong"
       THEN /\ drain' = "stopped"
            /\ UNCHANGED <<stderr, logged>>
       ELSE /\ stderr' = Tail(stderr)
            /\ logged' = Append(logged, Head(stderr))
            /\ UNCHANGED drain
    /\ UNCHANGED <<configVars, mwVars, boot, gone, crashed, httpVars, chan, requests, procVars,
                   stdin, childVars, cycle>>

\* the bridge with a child that also writes to its stderr
InitDrain == BridgeInit("drain")

NextDrain ==
    \/ \E kind \in LogKinds : ChildLog(kind)
    \/ DrainScan
    \/ Next

SpecDrain == InitDrain /\ [][NextDrain]_vars

\* the child also writes lines whose id member is null
InitNullId == BridgeInit("nullid")

SpecNullId == InitNullId /\ [][Next]_vars

\* the clients send bodies with newlines before, after and inside the JSON value
InitMultiline == BridgeInit("multiline")

SpecMultiline == InitMultiline /\ [][Next]_vars

(* ------------------------ vocabulary of the claims --------------------- *)

\* the raw id member of a body or of a stdout line that is one JSON object and at
\* most a trailing delimiter; AbsentId for any other text
RawIdOf(text) ==
    IF Len(text) >= 1 /\ text[1].k = "obj" /\ (Len(text) = 1 \/ (Len(text) = 2 /\ text[2] = NL))
    THEN text[1].id
    ELSE AbsentId

\* the text carries an identifier: its id member is present and not null
HasId(text) == RawIdOf(text) \notin {AbsentId, NullId}

\* request w went through Handle's decode and was sent on p.requests
Submitted(w) == hpc[w] \in {"wait", "done"} /\ req[w] # NoRequest

\* request w is a call: a submitted body whose id is present and non-null
IsCall(w) == Submitted(w) /\ HasId(inp[w].body)

\* request w is a notification: a submitted body with no identifier
IsNotification(w) == Submitted(w) /\ ~HasId(inp[w].body)

\* the lines read from stdout while request w was served that carry an id
IdLines(w) == SelectSeq(cycle[w].lines, HasId)

\* the requests whose cycle has begun (the write was attempted) and has not ended
InFlight == {w \in Workers : cycle[w].write # "none" /\ ~chan[w].closed}

\* the ids of the messages written to the child's stdin, in order
WrittenIds == [i \in 1 .. (Len(stdin) \div 2) |-> stdin[2 * i - 1].id]

\* the child has written only whole lines, the i-th being a reply to the i-th
\* message written to its stdin, and neither pipe has failed
RepliesInWriteOrder ==
    /\ stdinOpen /\ ~stdoutClosed
    /\ Len(emitted) <= Len(WrittenIds)
    /\ \A i \in 1 .. Len(emitted) :
           /\ Len(emitted[i]) = 2 /\ emitted[i][2] = NL
           /\ RawIdOf(emitted[i]) = WrittenIds[i]

\* every request that has arrived is a call, and their ids are pairwise distinct
DistinctCalls ==
    /\ \A w \in Workers : hpc[w] # "idle" => IsCall(w)
    /\ \A v, w \in Workers :
           (v # w /\ IsCall(v) /\ IsCall(w)) => RawIdOf(inp[v].body) # RawIdOf(inp[w].body)

(* ------------------------------- claims -------------------------------- *)

\* C1: a call whose first id-bearing stdout line carries the call's own id is
\* answered 200, Content-Type application/json, with exactly that line minus its
\* trailing newline as the body.
C1_MatchingReplyIs200 ==
    \A w \in Workers :
        (IsCall(w) /\ hpc[w] = "done" /\ IdLines(w) # <<>>
            /\ RawIdOf(IdLines(w)[1]) = RawIdOf(inp[w].body))
        => /\ resp[w].status = 200
           /\ resp[w].ctype = "application/json"
           /\ resp[w].body \o <<NL>> = IdLines(w)[1]

C1_Witness ==
    \E w \in Workers :
        /\ IsCall(w) /\ hpc[w] = "done" /\ IdLines(w) # <<>>
        /\ RawIdOf(IdLines(w)[1]) = RawIdOf(inp[w].body)
        /\ resp[w].status = 200

\* C2: while a call waits, every line without an id is skipped, however many come
\* first; what is sent on its channel is the first id-bearing line read, never a
\* line without an id.
C2_NotificationsSkipped ==
    \A w \in Workers :
        LET lines == cycle[w].lines
            n == Len(lines)
        IN /\ \A i \in 1 .. Len(chan[w].buf) : HasId(chan[w].buf[i])
           /\ IF cycle[w].sent = <<>>
              THEN \A i \in 1 .. n : ~HasId(lines[i])
              ELSE /\ n >= 1
                   /\ \A i \in 1 .. (n - 1) : ~HasId(lines[i])
                   /\ HasId(lines[n])
                   /\ cycle[w].sent = <<SubSeq(lines[n], 1, Len(lines[n]) - 1)>>

C2_Witness ==
    \E w \in Workers :
        /\ cycle[w].sent # <<>>
        /\ Len(cycle[w].lines) = MaxLines
        /\ hpc[w] = "done" /\ resp[w].status = 200

\* C3: a notification is answered 202 with an empty body, whatever the child
\* writes afterwards and also when it writes nothing.
C3_Notification202 ==
    \A w \in Workers :
        (IsNotification(w) /\ hpc[w] = "done")
        => resp[w].status = 202 /\ resp[w].body = <<>>

C3_Witness ==
    \E w \in Workers :
        /\ IsNotification(w) /\ hpc[w] = "done" /\ resp[w].status = 202
        /\ emitted = <<>>

\* C4: with calls of pairwise distinct ids and a child that replies once per call in
\* the order the calls were written, every call gets the reply with its own id and
\* none gets another call's reply, under every interleaving.
C4_NoCrossDelivery ==
    (DistinctCalls /\ RepliesInWriteOrder)
    => \A w \in Workers :
           /\ cycle[w].sent # <<>> => RawIdOf(cycle[w].sent[1]) = RawIdOf(inp[w].body)
           /\ hpc[w] = "done"
              => /\ resp[w].status = 200
                 /\ RawIdOf(resp[w].body) = RawIdOf(inp[w].body)

C4_Witness ==
    /\ DistinctCalls /\ RepliesInWriteOrder
    /\ \A w \in Workers : hpc[w] = "done" /\ resp[w].status = 200
    /\ NumWorkers >= 2

\* C5: one request's write-then-read cycle ends before the next request is written:
\* at most one request is in flight, and nothing is written to stdin while one is.
C5_OneCycleAtATime ==
    /\ [](Cardinality(InFlight) <= 1)
    /\ [][(stdin' # stdin \/ \E w \in Workers : cycle'[w].write # cycle[w].write)
              => InFlight = {}]_vars

C5_Witness ==
    /\ Cardinality(InFlight) = 1
    /\ Len(stdin) = 4
    /\ \E w \in Workers : chan[w].closed /\ cycle[w].sent # <<>>

\* C6: at most one read of the child's stdout is in flight, and no step of an HTTP
\* handler (Handle, HandleSSEDeprecated) writes stdin or reads stdout: those bytes
\* move only in steps of processRequests.
C6_PipesOwnedByWorker ==
    /\ [](Cardinality({p \in ProcIds : ppc[p] = "read"}) <= 1)
    /\ [][(hpc' # hpc) => (stdin' = stdin /\ stdout' = stdout)]_vars
    /\ [][(stdin' # stdin \/ Len(stdout') < Len(stdout))
              => (hpc' = hpc /\ (ppc' # ppc \/ cycle' # cycle))]_vars

C6_Witness ==
    /\ \E p \in ProcIds : ppc[p] = "read"
    /\ \E w \in Workers : resp[w].status = 410
    /\ stdout # <<>>

C8_ReadFailureIs500 ==
    \A w \in Workers :
        cycle[w].readErr
        => /\ chan[w].closed /\ chan[w].buf = <<>> /\ cycle[w].sent = <<>>
           /\ \A p \in ProcIds : ~(cur[p] = w /\ ppc[p] = "read")
           /\ hpc[w] = "done" => resp[w].status = 500
           /\ ~(crashed /\ hpc[w] # "done")

\* C9: in both proxies, when the write of a call fails, no read of stdout is
\* attempted for the call and its HTTP caller receives 500.
C9_WriteFailureIs500 ==
    \A w \in Workers :
        (IsCall(w) /\ cycle[w].write = "err")
        => /\ cycle[w].lines = <<>> /\ ~cycle[w].readErr
           /\ \A p \in ProcIds : cur[p] # w
           /\ hpc[w] = "done" => resp[w].status = 500

\* C10: a notification is answered 202 only when its write to stdin completed; one
\* whose write failed is never answered 202.
C10_No202AfterFailedWrite ==
    \A w \in Workers :
        (IsNotification(w) /\ resp[w].status = 202) => cycle[w].write = "ok"

\* a stdout line that does not parse as a JSON envelope: empty, or not JSON
Malformed(line) ==
    LET data == SubSeq(line, 1, Len(line) - 1)
    IN data = <<>> \/ data[1].k = "bad"

\* C11: when a line read while a call is pending is malformed (empty or not JSON),
\* the call fails: its channel is closed without a value, no further line is read
\* for it, and its HTTP caller receives 500.
C11_MalformedLineIs500 ==
    \A w \in Workers :
        \A i \in 1 .. Len(cycle[w].lines) :
            Malformed(cycle[w].lines[i])
            => /\ i = Len(cycle[w].lines)
               /\ chan[w].closed /\ chan[w].buf = <<>> /\ cycle[w].sent = <<>>
               /\ \A p \in ProcIds : cur[p] # w
               /\ hpc[w] = "done" => resp[w].status = 500

\* C12: a notification is acknowledged as soon as its own write completes: in
\* every state where the write is done its channel is closed, no stdout line was
\* read for it, and its handler can answer at once, whatever the child has or has
\* not written and also when earlier calls were queued or pending before it.
C12_NotificationAckOnWrite ==
    \A w \in Workers :
        (IsNotification(w) /\ cycle[w].write = "ok")
        => /\ chan[w].closed
           /\ cycle[w].lines = <<>>
           /\ (hpc[w] = "wait" /\ ~crashed) => ENABLED HandleReceive(w)
           /\ hpc[w] = "done" => resp[w].status = 202

C12_Witness ==
    /\ NumWorkers >= 2
    /\ IsCall(1) /\ cycle[1].sent # <<>>
    /\ IsNotification(2) /\ cycle[2].write = "ok"
    /\ hpc[2] = "done" /\ resp[2].status = 202
    /\ Len(emitted) = 1

\* C13: processing a notification reads nothing from the child's stdout: the
\* worker's turn for a notification leaves stdout as it was and ends with the
\* channel closed, and no line is ever read on a notification's behalf.
C13_NotificationLeavesStdout ==
    /\ [](\A w \in Workers :
              IsNotification(w)
              => /\ cycle[w].lines = <<>> /\ ~cycle[w].readErr
                 /\ \A p \in ProcIds : cur[p] # w)
    /\ [][\A w \in Workers :
              (IsNotification(w) /\ cycle'[w] # cycle[w])
              => (stdout' = stdout /\ chan'[w].closed)]_vars

C13_Witness ==
    \E w \in Workers :
        /\ IsNotification(w) /\ cycle[w].write = "ok" /\ chan[w].closed
        /\ Len(emitted) = MaxLines
        /\ Len(stdout) = 2 * MaxLines

\* C14: Handle classifies a decoded body as a call exactly when its id member is
\* present and not null: the ids 0 and "" are calls, which are answered only
\* after their read cycle (200 with a line read for them, or 500); a missing id
\* and a null id are notifications, answered 202 with no line read for them.
C14_ClassifiedByNonNullId ==
    \A w \in Workers :
        Submitted(w)
        => /\ req[w].isRequest <=> RawIdOf(inp[w].body) \notin {AbsentId, NullId}
           /\ RawIdOf(inp[w].body) \in {NumId(0), StrId("")}
              => /\ req[w].isRequest
                 /\ hpc[w] = "done"
                    => /\ cycle[w].write # "none"
                       /\ resp[w].status \in {200, 500}
                       /\ resp[w].status = 200 => resp[w].body = cycle[w].sent[1]
           /\ RawIdOf(inp[w].body) \in {AbsentId, NullId}
              => /\ ~req[w].isRequest
                 /\ cycle[w].lines = <<>>
                 /\ hpc[w] = "done" => resp[w].status = 202

C14_Witness ==
    \E v, w \in Workers :
        /\ Submitted(v) /\ RawIdOf(inp[v].body) = StrId("")
        /\ hpc[v] = "done" /\ resp[v].status = 200
        /\ Submitted(w) /\ RawIdOf(inp[w].body) = NullId
        /\ hpc[w] = "done" /\ resp[w].status = 202

\* the body does not decode as JSON: it is empty, or it is not JSON
Undecodable(body) == body = <<>> \/ body[1].k = "bad"

\* request w was handled by Handle past the CORS pre-flight
InHandle(w) ==
    /\ hpc[w] # "idle"
    /\ ~(impl = "github" /\ inp[w].path = "/sse")
    /\ ~(CORSOn /\ inp[w].method = "OPTIONS")

\* C15: a body that does not decode as JSON is answered 400 with the decode error
\* text; no request is built or enqueued for it and nothing is written to the
\* child: the step that answers 400 leaves the queue and stdin unchanged.
C15_DecodeError400 ==
    /\ [](\A w \in Workers :
              (InHandle(w) /\ Undecodable(inp[w].body))
              => /\ hpc[w] = "done"
                 /\ resp[w].status = 400
                 /\ resp[w].body = <<Fixed("decode_error"), NL>>
                 /\ req[w] = NoRequest /\ cycle[w] = NoCycle
                 /\ \A i \in 1 .. Len(requests) : requests[i] # w)
    /\ [][\A w \in Workers :
              (resp'[w].status = 400 /\ resp[w].status # 400)
              => (requests' = requests /\ stdin' = stdin)]_vars

C15_Witness ==
    /\ \E w \in Workers :
           InHandle(w) /\ inp[w].body = <<>> /\ resp[w].status = 400
    /\ \E w \in Workers :
           InHandle(w) /\ inp[w].body # <<>> /\ Undecodable(inp[w].body)
               /\ resp[w].status = 400
    /\ requests = <<>> /\ stdin = <<>>

\* C16: with CORS enabled, an OPTIONS request to Handle is answered 200 with an
\* empty body and the Access-Control-Allow-* headers, whether or not its body
\* decodes; it is never enqueued and nothing is written to the child for it.
C16_OptionsNeverForwarded ==
    /\ [](CORSOn
          => \A w \in Workers :
                 (inp[w].method = "OPTIONS" /\ inp[w].path = "/")
                 => /\ hpc[w] = "done"
                    /\ resp[w].status = 200 /\ resp[w].body = <<>> /\ resp[w].cors
                    /\ req[w] = NoRequest /\ cycle[w] = NoCycle
                    /\ \A i \in 1 .. Len(requests) : requests[i] # w)
    /\ [][\A w \in Workers :
              (CORSOn /\ inp[w] = NoInput /\ inp'[w].method = "OPTIONS")
              => (requests' = requests /\ stdin' = stdin)]_vars

C16_Witness ==
    /\ impl = "generic" /\ enableCORS
    /\ \E w \in Workers :
           /\ inp[w].method = "OPTIONS" /\ Undecodable(inp[w].body)
           /\ resp[w].status = 200
    /\ \E w \in Workers :
           /\ inp[w].method = "OPTIONS" /\ ~Undecodable(inp[w].body)
           /\ resp[w].status = 200

\* C17: where the /sse route is registered (the GitHub proxy), GET and POST to
\* /sse are answered 410 with the fixed JSON error body, whatever the state of
\* the child and of the queue; handling it enqueues nothing, writes nothing to
\* stdin and reads nothing from stdout.
C17_SSEAlways410 ==
    /\ [](impl = "github"
          => \A w \in Workers :
                 inp[w].path = "/sse"
                 => /\ hpc[w] = "done"
                    /\ resp[w].status = 410
                    /\ resp[w].ctype = "application/json"
                    /\ resp[w].body = <<Fixed("sse_deprecated")>>
                    /\ req[w] = NoRequest /\ cycle[w] = NoCycle
                    /\ \A i \in 1 .. Len(requests) : requests[i] # w)
    /\ [][\A w \in Workers :
              (impl = "github" /\ inp[w] = NoInput /\ inp'[w].path = "/sse")
              => UNCHANGED <<requests, stdin, stdout, chan, procVars>>]_vars

C17_Witness ==
    /\ impl = "github" /\ NumWorkers >= 2
    /\ hpc[1] = "wait" /\ stdoutClosed
    /\ \E p \in ProcIds : ppc[p] = "read" /\ cur[p] = 1
    /\ inp[2].method = "POST" /\ inp[2].path = "/sse" /\ resp[2].status = 410

\* C18: under fair scheduling, and with a child that for each call written emits
\* an id-bearing line or closes its stdout, every request sent on the queue
\* eventually has an outcome: a value on its channel or its channel closed.
C18_EveryRequestGetsOutcome ==
    \A w \in Workers :
        Submitted(w) ~> (chan[w].closed \/ chan[w].buf # <<>>)

\* C19: a client that disconnects while its call waits interrupts nothing: the
\* disconnect changes no state of the worker, the queue, the pipes or the
\* channels; the worker's send of a reply never blocks; the reply of an abandoned
\* call stays on that call's own channel (or with its own handler); and a later
\* call is answered with a line read in its own cycle, which carries its own id
\* when the child replies once per call in write order.
C19_DisconnectDoesNotInterrupt ==
    /\ [][gone' # gone
              => UNCHANGED <<hpc, procVars, chan, requests, stdin, stdout, cycle>>]_vars
    /\ [](\A p \in ProcIds :
              ppc[p] = "read" => Len(chan[cur[p]].buf) < RespChanCap)
    /\ [](\A v \in Workers :
              (gone[v] /\ cycle[v].sent # <<>>)
              => /\ \A p \in ProcIds : cur[p] # v
                 /\ \/ chan[v].buf = cycle[v].sent
                    \/ hpc[v] = "done" /\ resp[v].body = cycle[v].sent[1]
                 /\ \A w \in Workers :
                        (w # v /\ IsCall(w) /\ hpc[w] = "done" /\ resp[w].status = 200)
                        => /\ resp[w].body = cycle[w].sent[1]
                           /\ resp[w].body # cycle[v].sent[1])
    /\ []((DistinctCalls /\ RepliesInWriteOrder)
          => \A w \in Workers :
                 hpc[w] = "done"
                 => /\ resp[w].status = 200
                    /\ RawIdOf(resp[w].body) = RawIdOf(inp[w].body))

C19_Witness ==
    /\ NumWorkers >= 2
    /\ DistinctCalls /\ RepliesInWriteOrder
    /\ gone[1] /\ hpc[1] = "wait" /\ chan[1].buf # <<>>
    /\ hpc[2] = "done" /\ resp[2].status = 200
    /\ RawIdOf(resp[2].body) = RawIdOf(inp[2].body)

\* the result of a reply is already flagged: it decodes with isError = true
Flagged(reply) ==
    /\ reply.json /\ reply.result.kind = "object"
    /\ reply.result.isError = "true"

\* C20: with marking enabled, markOracleErrors applied to its own output returns
\* that output unchanged, and a reply whose result already has isError = true is
\* returned unchanged, byte for byte.
C20_MarkingIdempotent ==
    MarkingEnabled(markEnv)
    => /\ \A i \in 2 .. Len(mwOut) : mwOut[i] = mwOut[i - 1]
       /\ (Flagged(mwIn) /\ mwOut # <<>>) => mwOut[1] = mwIn

C20_Witness ==
    /\ MarkingEnabled(markEnv)
    /\ Len(mwOut) >= 2
    /\ mwOut[1] # mwIn
    /\ Flagged(mwOut[1]) /\ ~Flagged(mwIn)
    /\ mwOut[2] = mwOut[1]

\* the text carries an Oracle error code: ORA-<digits> or SP2-<digits>, in any case
HasOracleCode(text) == text \in {"ORA-00942", "sp2-0640"}

\* the reply decodes, its result decodes as a content list, and it is not flagged
Unflagged(reply) ==
    /\ reply.json /\ reply.result.kind = "object"
    /\ reply.result.isError \in {"absent", "false"}

\* the reply has a content entry of type text with an Oracle error code
HasCodedText(reply) ==
    \E i \in 1 .. Len(reply.result.content) :
        /\ reply.result.content[i].type = "text"
        /\ HasOracleCode(reply.result.content[i].text)

\* C21: with the flag enabled, a reply that is not yet flagged and has a text
\* entry with an Oracle error code, at any position of its content list, comes
\* back with isError = true in its result, the type and text of its entries as
\* they were.
C21_CodedTextIsFlagged ==
    (MarkingEnabled(markEnv) /\ Unflagged(mwIn) /\ HasCodedText(mwIn) /\ mwOut # <<>>)
    => /\ Flagged(mwOut[1])
       /\ Len(mwOut[1].result.content) = Len(mwIn.result.content)
       /\ \A i \in 1 .. Len(mwIn.result.content) :
              /\ mwOut[1].result.content[i].type = mwIn.result.content[i].type
              /\ mwOut[1].result.content[i].text = mwIn.result.content[i].text

C21_Witness ==
    /\ MarkingEnabled(markEnv) /\ Unflagged(mwIn) /\ mwOut # <<>>
    /\ Len(mwIn.result.content) = MaxContent
    /\ mwIn.result.content[1].text = "rows"
    /\ mwIn.result.content[MaxContent].type = "text"
    /\ mwIn.result.content[MaxContent].text = "sp2-0640"
    /\ Flagged(mwOut[1])

\* C22: with the flag enabled, only replies with an Oracle error are marked: a
\* reply none of whose text entries has an ORA-<digits> or SP2-<digits> code is
\* returned unchanged, its error flag not set.
C22_OnlyCodedTextIsFlagged ==
    (MarkingEnabled(markEnv) /\ Unflagged(mwIn) /\ ~HasCodedText(mwIn) /\ mwOut # <<>>)
    => /\ mwOut[1] = mwIn
       /\ ~Flagged(mwOut[1])

\* one of the decode steps fails: the reply is not JSON, or its result does not
\* decode as a content list
DecodeFails(reply) ==
    \/ ~reply.json
    \/ reply.result.kind = "other"
    \/ reply.result.kind = "object" /\ reply.result.isError = "bad"

\* C23: markOracleErrors returns a value for every reply, and returns the reply
\* unchanged when it is not JSON, when it has no result, and when its result does
\* not decode as a content list.
C23_DecodeFailureReturnsOriginal ==
    /\ mwOut = <<>> => ENABLED ApplyMiddleware
    /\ (mwOut # <<>> /\ (DecodeFails(mwIn) \/ mwIn.result.kind = "absent"))
       => mwOut[1] = mwIn

C23_Witness ==
    /\ MarkingEnabled(markEnv) /\ mwOut # <<>>
    /\ mwIn.json /\ mwIn.result.kind = "object" /\ mwIn.result.isError = "bad"
    /\ HasCodedText(mwIn)
    /\ mwOut[1] = mwIn

\* C24: unless MARK_SQL_ERRORS_AS_ERROR is exactly "true" or "1", every reply is
\* returned unchanged, also one whose text has an Oracle error code.
C24_OffByDefault ==
    markEnv \notin {"true", "1"}
    => \A i \in 1 .. Len(mwOut) : mwOut[i] = mwIn

C24_Witness ==
    /\ markEnv = "TRUE"
    /\ Unflagged(mwIn) /\ HasCodedText(mwIn)
    /\ mwOut # <<>> /\ mwOut[1] = mwIn

\* C25: GitHub proxy: the reply id matches the request id exactly when both
\* serialize to the same JSON text: a line is delivered without the mismatch
\* warning exactly when its id and the call's id are the same number or the same
\* string, and the number 1 never matches the string "1"; formatID(1) is 1 and
\* formatID("abc-123") is "abc-123" with its quotes.
C25_MatchBySerializedId ==
    /\ formatID([t |-> "float64", v |-> 1]) = "1"
    /\ formatID([t |-> "string", v |-> "abc-123"]) = "\"abc-123\""
    /\ formatID([t |-> "float64", v |-> 1]) # formatID([t |-> "string", v |-> "1"])
    /\ impl = "github"
       => /\ \A p \in ProcIds :
                 ppc[p] = "read" => requestID[p] = UnmarshalID(inp[cur[p]].body)
          /\ \A w \in Workers :
                 cycle[w].sent # <<>>
                 => (cycle[w].warned
                        <=> RawIdOf(cycle[w].sent[1]) # RawIdOf(inp[w].body))

C25_Witness ==
    /\ impl = "github" /\ NumWorkers >= 2
    /\ RawIdOf(inp[1].body) = NumId(1) /\ cycle[1].sent # <<>>
    /\ RawIdOf(cycle[1].sent[1]) = StrId("1") /\ cycle[1].warned
    /\ RawIdOf(inp[2].body) = StrId("1") /\ cycle[2].sent # <<>>
    /\ RawIdOf(cycle[2].sent[1]) = StrId("1") /\ ~cycle[2].warned

\* the number of times request w sits in the queue
TimesQueued(w) == Cardinality({i \in 1 .. Len(requests) : requests[i] = w})

\* C26: the queue never holds more than 100 requests; a handler that wants to
\* submit while it is full cannot proceed and has answered nothing (it waits, it
\* is not rejected); a request enters only at the tail and only when there is
\* room; and a submitted request stays in the queue, exactly once, until the
\* worker takes it.
C26_QueueBoundedLossless ==
    /\ [](Len(requests) <= 100)
    /\ [](Len(requests) = 100
          => \A w \in DOMAIN hpc :
                 hpc[w] = "idle"
                 => /\ resp[w] = NoResponse
                    /\ ~ENABLED (\E in \in HTTPInputs(w) : HandleSubmit(w, in)))
    /\ [](\A w \in DOMAIN hpc :
              Submitted(w)
              => TimesQueued(w) = (IF cycle[w].write = "none" THEN 1 ELSE 0))
    /\ [][requests' # requests
              => \/ requests # <<>> /\ requests' = Tail(requests)
                      /\ cycle'[Head(requests)].write # "none"
                 \/ Len(requests) < 100
                      /\ \E w \in DOMAIN hpc :
                             /\ hpc[w] = "idle" /\ hpc'[w] = "wait"
                             /\ requests' = Append(requests, w)]_vars

C26_Witness ==
    /\ Len(requests) = 100
    /\ hpc[101] = "wait" /\ TimesQueued(101) = 1
    /\ hpc[102] = "idle" /\ resp[102] = NoResponse
    /\ \E p \in ProcIds : ppc[p] = "read" /\ cur[p] = 1

\* the requests whose message stands on the child's stdin, in the order written
WrittenRequests == [i \in 1 .. (Len(stdin) \div 2) |-> stdin[2 * i - 1].pay]

\* the number of times request w's message has been written
TimesWritten(w) ==
    Cardinality({i \in 1 .. Len(WrittenRequests) : WrittenRequests[i] = w})

\* C27: the queue is first in, first out and the worker writes what it takes:
\* requests enter at the tail, every write to the child's stdin is the message
\* of the request at the head, which leaves the queue with it; a request whose
\* write succeeded stands on stdin once, one whose write failed or that is
\* still queued not at all, and a request taken from the queue does not return.
C27_WrittenInQueueOrderOnce ==
    /\ [][requests' # requests
              => \/ requests # <<>> /\ requests' = Tail(requests)
                 \/ \E w \in Workers : requests' = Append(requests, w)]_vars
    /\ [][stdin' # stdin
              => /\ requests # <<>>
                 /\ stdin' = stdin \o req[Head(requests)].msg \o <<NL>>
                 /\ requests' = Tail(requests)]_vars
    /\ [](\A w \in Workers :
              Submitted(w)
              => /\ TimesWritten(w) = (IF cycle[w].write = "ok" THEN 1 ELSE 0)
                 /\ TimesQueued(w) = (IF cycle[w].write = "none" THEN 1 ELSE 0))
    /\ [][\A w \in Workers :
              cycle[w].write # "none" => cycle'[w].write = cycle[w].write]_vars

C27_Witness ==
    /\ \A w \in Workers : Submitted(w) /\ cycle[w].write = "ok"
    /\ WrittenRequests = [i \in 1 .. NumWorkers |-> i]

\* C28: with CORS enabled, every response Handle has produced (200 reply or
\* pre-flight, 202, 400, 500) carries the CORS headers.
C28_CORSOnEveryHandleResponse ==
    CORSOn
    => \A w \in Workers :
           resp[w].status \in {200, 202, 400, 500} => resp[w].cors

C28_Witness ==
    /\ impl = "generic" /\ enableCORS
    /\ \E w \in Workers : resp[w].status = 500 /\ resp[w].cors
    /\ \E w \in Workers : resp[w].status \in {200, 202, 400} /\ resp[w].cors

\* C29: when the child cannot be started, no worker goroutine runs, no HTTP
\* request is ever handled, nothing is queued or written to a child, and the
\* process takes no further step: the launch is not tried again.
C29_LaunchFailureIsFatal ==
    /\ [](boot = "failed"
          => /\ \A p \in ProcIds : ppc[p] = "none"
             /\ \A w \in Workers : hpc[w] = "idle" /\ resp[w] = NoResponse
             /\ requests = <<>> /\ stdin = <<>>)
    /\ [][boot # "failed"]_vars
    /\ [][boot' # boot => boot = "starting"]_vars

C29_Witness ==
    /\ boot = "failed"
    /\ ~ENABLED NextLaunch

\* C30: the drain and the worker do not hold each other up: while the process
\* runs, a line waiting on the child's stderr can be taken by the drain, whatever
\* the worker is doing, and the worker's next step (take a request, return from
\* the read) is possible whatever the drain is doing.
C30_DrainAndWorkerIndependent ==
    /\ (Alive /\ stderr # <<>>) => ENABLED DrainScan
    /\ \A p \in ProcIds :
           /\ (Alive /\ ppc[p] = "read") => ENABLED (ReadLine(p) \/ ReadError(p))
           /\ (Alive /\ ppc[p] = "recv" /\ requests # <<>>)
                  => ENABLED (\E failed \in BOOLEAN : ProcessNext(p, failed))

\* C31: a request's response channel receives at most one value, the worker's
\* send finds room in it, and the worker never reaches a close of a channel
\* that is already closed (which would be a panic).
C31_ResponseChannelClosedOnce ==
    /\ \A w \in Workers :
           /\ Len(cycle[w].sent) <= 1
           /\ Len(chan[w].buf) <= RespChanCap
    /\ \A p \in ProcIds :
           /\ ppc[p] = "read" => chan[cur[p]].buf = <<>> /\ ~chan[cur[p]].closed
           /\ ppc[p] = "close" => ~chan[cur[p]].closed
    /\ ~crashed

\* the number of '\n' bytes of a text: each delimiter, and the one inside each
\* object written over two lines
Newlines(text) == Cardinality({i \in 1 .. Len(text) : text[i].k \in {"nl", "objml"}})

\* C32: the bytes written to the child's stdin for one request hold one newline,
\* the delimiter at their end: stdin holds as many newlines as requests were
\* written.
C32_OneLinePerRequest ==
    Newlines(stdin) = Cardinality({w \in Workers : cycle[w].write = "ok"})

C34_FlaggingChangesOnlyTheFlag ==
    (Len(mwOut) >= 1 /\ Unflagged(mwIn) /\ Flagged(mwOut[1]))
    => /\ mwOut[1].id = mwIn.id
       /\ mwOut[1].error = mwIn.error
       /\ mwOut[1].extra = mwIn.extra
       /\ mwOut[1].result.content = mwIn.result.content
       /\ mwOut[1].result.extra = mwIn.result.extra

\* the child's stdout is closed and no whole line is left unread: every
\* ReadBytes from now on returns an error
StreamEnded == stdoutClosed /\ FirstNL(stdout) = 0

\* what a request written later must never get, and must get once answered:
\* no line is sent on its channel, a call is answered 500, a notification whose
\* write succeeded 202
AnsweredAsAfterClose(w) ==
    /\ cycle[w].sent = <<>>
    /\ IsCall(w) => resp[w].status # 200
    /\ (hpc[w] = "done" /\ IsCall(w)) => resp[w].status = 500
    /\ (hpc[w] = "done" /\ IsNotification(w) /\ cycle[w].write = "ok")
           => resp[w].status = 202

\* C35, as stated: generic proxy, from the moment the child's stdout is closed,
\* every request not yet written is answered as above.
C35_AfterStdoutClosed ==
    impl = "generic"
    => \A w \in Workers :
           []((stdoutClosed /\ cycle[w].write = "none") => []AnsweredAsAfterClose(w))

\* C35, amended: generic proxy, from the moment the child's stdout is closed and
\* every whole line written before has been read, every request not yet written
\* gets no line: a call is answered 500 and never 200, a notification whose
\* write succeeds 202; the worker goes on taking requests from the queue, so
\* that every submitted request is answered.
C35_AfterEndOfStream ==
    impl = "generic"
    => \A w \in Workers :
           /\ []((StreamEnded /\ cycle[w].write = "none") => []AnsweredAsAfterClose(w))
           /\ (StreamEnded /\ Submitted(w)) ~> (hpc[w] = "done")
           /\ [](StreamEnded => ~crashed)

C35_Witness ==
    /\ impl = "generic" /\ StreamEnded
    /\ \E v, w \in Workers :
           /\ IsCall(v) /\ cycle[v].readErr /\ cycle[v].lines = <<>>
           /\ hpc[v] = "done" /\ resp[v].status = 500
           /\ IsNotification(w) /\ cycle[w].write = "ok"
           /\ hpc[w] = "done" /\ resp[w].status = 202
           /\ Len(stdin) = 4 /\ stdin[1].pay = v /\ stdin[3].pay = w

\* the line is one JSON object whose id member is null
HasNullId(line) == RawIdOf(line) = NullId

\* C36: a stdout line whose id is null is treated as a line without an id: it
\* decodes to the same nil id, it is never sent on a channel nor returned to a
\* caller, and after reading it for a call the worker is still in that call's
\* read loop (or the read after it failed), the call unanswered by it.
C36_NullIdLineSkipped ==
    /\ \A p \in ProcIds :
           (ppc[p] = "read" /\ ~ReadBytes(stdout).err /\ HasNullId(ReadBytes(stdout).line))
           => /\ UnmarshalID(ResponseData(ReadBytes(stdout).line)) = NilID
              /\ LineStep(UnmarshalID(ResponseData(ReadBytes(stdout).line)), requestID[p])
                     = "continue"
    /\ \A w \in Workers :
           /\ \A i \in 1 .. Len(cycle[w].sent) : ~HasNullId(cycle[w].sent[i])
           /\ \A i \in 1 .. Len(chan[w].buf) : ~HasNullId(chan[w].buf[i])
           /\ ~HasNullId(resp[w].body)
           /\ (cycle[w].lines # <<>> /\ HasNullId(cycle[w].lines[Len(cycle[w].lines)]))
              => /\ cycle[w].sent = <<>> /\ chan[w].buf = <<>>
                 /\ \/ \E p \in ProcIds : cur[p] = w /\ ppc[p] = "read" /\ ~chan[w].closed
                    \/ cycle[w].readErr

C36_Witness ==
    \E w \in Workers :
        /\ IsCall(w) /\ Len(cycle[w].lines) = 2
        /\ HasNullId(cycle[w].lines[1])
        /\ HasId(cycle[w].lines[2])
        /\ hpc[w] = "done" /\ resp[w].status = 200
        /\ resp[w].body = ResponseData(cycle[w].lines[2])

=============================================================================
